---------------------------- MODULE Spec2Model ----------------------------
(***************************************************************************)
(* Model of systemd_persistent_eth.py: the three-pass renaming of network  *)
(* interfaces (quarantine to temp<idx>, match by HWADDR, fallback eth<N>). *)
(*                                                                         *)
(* Strings are sequences of one-character strings, so that upper(),        *)
(* lower(), strip(), split() and the substring test `in` are computed the  *)
(* way the Python code computes them.                                      *)
(*                                                                         *)
(* The kernel's link table (names, adminUp) is the state the `ip` commands *)
(* act on: a rename to a name another link holds is refused (EEXIST), a    *)
(* command on a name no link holds is refused (ENODEV), and any rename may *)
(* be refused for a reason of the kernel's own (EBUSY).  The script never  *)
(* reads a return code.                                                    *)
(*                                                                         *)
(* The order of a Python 2 dict's keys() is a function of its keys that    *)
(* depends on the build (hash width, table size): every order is a         *)
(* possible outcome, chosen the first time a set of keys is iterated and   *)
(* the same from then on (variable order).                                 *)
(***************************************************************************)
EXTENDS Integers, Sequences, FiniteSets, TLC

(***************************************************************************)
(* Bounds of the model.                                                    *)
(***************************************************************************)
MaxIfaces == 2
MaxFaults == 1
MaxRuns == 2

(***************************************************************************)
(* Strings.                                                                *)
(***************************************************************************)
Lowers == <<"a","b","c","d","e","f","g","h","i","j","k","l","m",
            "n","o","p","q","r","s","t","u","v","w","x","y","z">>
Uppers == <<"A","B","C","D","E","F","G","H","I","J","K","L","M",
            "N","O","P","Q","R","S","T","U","V","W","X","Y","Z">>
Digits == <<"0","1","2","3","4","5","6","7","8","9">>
Whitespace == {" ", "\t", "\n", "\r"}
DQuote == "\""
SQuote == "'"

UpChar(c) ==
    IF \E k \in 1..26 : Lowers[k] = c
    THEN Uppers[CHOOSE k \in 1..26 : Lowers[k] = c]
    ELSE c

LowChar(c) ==
    IF \E k \in 1..26 : Uppers[k] = c
    THEN Lowers[CHOOSE k \in 1..26 : Uppers[k] = c]
    ELSE c

\* str.upper()
upper(s) == [k \in 1..Len(s) |-> UpChar(s[k])]

\* str.lower()
lower(s) == [k \in 1..Len(s) |-> LowChar(s[k])]

RECURSIVE lstrip(_, _)
lstrip(s, cs) ==
    IF s # <<>> /\ Head(s) \in cs THEN lstrip(Tail(s), cs) ELSE s

RECURSIVE rstrip(_, _)
rstrip(s, cs) ==
    IF s # <<>> /\ s[Len(s)] \in cs
    THEN rstrip(SubSeq(s, 1, Len(s) - 1), cs)
    ELSE s

\* str.strip(chars): removes the characters of cs from both ends
strip(s, cs) == rstrip(lstrip(s, cs), cs)

\* sub in s
Contains(sub, s) ==
    \E k \in 0..(Len(s) - Len(sub)) : SubSeq(s, k + 1, k + Len(sub)) = sub

\* str.split(sep) for a one-character separator
RECURSIVE split(_, _)
split(s, sep) ==
    IF \E k \in 1..Len(s) : s[k] = sep
    THEN LET p == CHOOSE k \in 1..Len(s) :
                     s[k] = sep /\ \A m \in 1..(k - 1) : s[m] # sep
         IN  <<SubSeq(s, 1, p - 1)>> \o split(SubSeq(s, p + 1, Len(s)), sep)
    ELSE <<s>>

\* '%d' % n
RECURSIVE Dec(_)
Dec(n) ==
    IF n < 10 THEN <<Digits[n + 1]>>
    ELSE Dec(n \div 10) \o <<Digits[(n % 10) + 1]>>

S_temp == <<"t","e","m","p">>
S_eth == <<"e","t","h">>
K_HWADDR == <<"H","W","A","D","D","R">>
K_DEVICE == <<"D","E","V","I","C","E">>
K_NAME == <<"N","A","M","E">>

\* 'temp%d' %(idx)
TempName(n) == S_temp \o Dec(n)

\* 'eth%d' %(idx)
EthName(n) == S_eth \o Dec(n)

\* All orders in which the elements of a finite set can be iterated.
Orderings(S) ==
    {s \in [1..Cardinality(S) -> S] :
        \A a, b \in 1..Cardinality(S) : a # b => s[a] # s[b]}


(***************************************************************************)
(* Inputs: the hosts (interfaces as the kernel lists them before the run)  *)
(* and the contents of /etc/sysconfig/network-scripts/.                    *)
(***************************************************************************)
MAC_A == <<"a","a",":","0","1">>
MAC_B == <<"b","b",":","0","2">>
MAC_C == <<"c","c",":","0","3">>

\* Hardware addresses as `ip link show` prints them (lowercase).
Macs == <<MAC_A, MAC_B, MAC_C>>

N_ens3 == <<"e","n","s","3">>
N_ens4 == <<"e","n","s","4">>
N_ens5 == <<"e","n","s","5">>
N_eth0 == <<"e","t","h","0">>
N_eth1 == <<"e","t","h","1">>
N_eth4 == <<"e","t","h","4">>
N_temp0 == <<"t","e","m","p","0">>
N_temp1 == <<"t","e","m","p","1">>
N_temp2 == <<"t","e","m","p","2">>

\* Names the links hold before a run, in the order `ip link show` lists
\* them; link k has the address Macs[k].
AllHosts ==
    << <<>>,
       <<N_ens3>>, <<N_eth0>>, <<N_temp1>>,
       <<N_ens3, N_ens4>>, <<N_ens4, N_ens3>>,
       <<N_eth0, N_eth1>>, <<N_eth1, N_eth0>>,
       <<N_eth4, N_temp0>>, <<N_temp0, N_eth4>>,
       <<N_temp1, N_temp0>>, <<N_ens3, N_temp0>>,
       <<N_ens3, N_ens4, N_ens5>>, <<N_eth4, N_temp0, N_temp1>>,
       <<N_temp2, N_eth1, N_ens3>> >>

Hosts == {h \in 1..Len(AllHosts) : Len(AllHosts[h]) <= MaxIfaces}

NL == <<"\n">>
EQ == <<"=">>

\* One KEY=VALUE line of an ifcfg file, with its line end.
Line(k, v) == k \o EQ \o v \o NL

File(path, readable, content) ==
    [path |-> path, readable |-> readable, content |-> content]

P_eth0 == <<"i","f","c","f","g","-","e","t","h","0">>
P_eth1 == <<"i","f","c","f","g","-","e","t","h","1">>
P_eth0bak == <<"i","f","c","f","g","-","e","t","h","0",".","b","a","k">>
P_vlan == <<"i","f","c","f","g","-","e","t","h","0",":","1">>
P_ens3 == <<"i","f","c","f","g","-","e","n","s","3">>
GlobPrefix == <<"i","f","c","f","g","-","e","t","h">>

HW_a == Line(K_HWADDR, MAC_A)
HW_b == Line(K_HWADDR, MAC_B)
Dev(n) == Line(K_DEVICE, n)

\* The directories the runs are checked on; each is a set of files.
AllDirs ==
    << {},
       {File(P_eth0, TRUE, HW_a \o Dev(N_eth0)),
        File(P_ens3, TRUE, HW_b \o Dev(N_eth0))},
       {File(P_eth0, TRUE, Line(K_HWADDR, <<"\"","A","A",":","0","1","\"">>) \o Dev(<<"\"","e","t","h","0","\"">>)),
        File(P_eth1, TRUE, Line(<<"n","a","m","e">>, N_eth1) \o HW_b)},
       {File(P_eth0, TRUE, Line(K_HWADDR, <<"'","a","a",":","0","1","'">>) \o Dev(N_eth0))},
       {File(P_eth0, TRUE, Dev(N_eth0)),
        File(P_eth1, TRUE, HW_b \o Dev(N_eth1))},
       {File(P_eth0, FALSE, HW_a \o Dev(N_eth0)),
        File(P_eth1, TRUE, HW_b \o Dev(N_eth1))},
       {File(P_eth0, TRUE, HW_a \o Dev(N_eth0)),
        File(P_eth0bak, TRUE, HW_a \o Dev(<<"e","t","h","5">>))},
       {File(P_vlan, TRUE, HW_a \o Dev(<<"e","t","h","7">>)),
        File(P_eth1, TRUE, HW_b \o Dev(N_eth1))},
       {File(P_eth0, TRUE, HW_a \o Dev(<<"l","a","n","0">>))},
       {File(P_eth0, TRUE, HW_a),
        File(P_eth1, TRUE, HW_b \o Line(K_NAME, <<"E","t","h","1">>))},
       {File(P_eth0, TRUE, HW_a \o Dev(N_eth0)),
        File(P_eth1, TRUE, HW_b \o Dev(N_eth0))},
       {File(P_eth0, TRUE, HW_b \o Dev(N_eth4))},
       {File(P_eth0, TRUE, HW_a \o Line(K_NAME, N_eth1)
                                \o Dev(<<"'","e","t","h","0","'">>))} >>

Dirs == 1..Len(AllDirs)

(***************************************************************************)
(* The link-management facility (`ip link`) acting on the kernel's table:  *)
(* nm maps each link to its name, up to its administrative state.          *)
(***************************************************************************)
Holders(nm, entry) == {k \in DOMAIN nm : nm[k] = entry}

\* ip link set dev <entry> down
IpSetDown(nm, up, entry) ==
    [k \in DOMAIN up |-> IF nm[k] = entry THEN FALSE ELSE up[k]]

\* ip link set dev <entry> up
IpSetUp(nm, up, entry) ==
    [k \in DOMAIN up |-> IF nm[k] = entry THEN TRUE ELSE up[k]]

\* Whether `ip link set dev <entry> name <target>` renames a link: the
\* device exists, the kernel is not busy, no other link holds the target.
RenameOk(nm, entry, target, busy) ==
    /\ Holders(nm, entry) # {}
    /\ ~busy
    /\ \A k \in DOMAIN nm : nm[k] = target => nm[k] = entry

\* The rename as it would act were a held target not refused (no EEXIST).
IpSetNameNoExistCheck(nm, entry, target, busy) ==
    IF Holders(nm, entry) # {} /\ ~busy
    THEN [k \in DOMAIN nm |-> IF nm[k] = entry THEN target ELSE nm[k]]
    ELSE nm

\* ip link set dev <entry> name <target>
IpSetName(nm, entry, target, busy) ==
    IF RenameOk(nm, entry, target, busy)
    THEN [k \in DOMAIN nm |-> IF nm[k] = entry THEN target ELSE nm[k]]
    ELSE nm

\* The name link_name_change asks for: `if not dest` holds for None and ''.
Target(idxArg, dest) == IF dest = <<>> THEN TempName(idxArg) ELSE dest

\* link_name_change(idx, entry, dest): down, rename, up of 'temp%d' %(idx).
\* No return code is read.
link_name_change(nm, up, idxArg, entry, dest, busy) ==
    LET up1 == IpSetDown(nm, up, entry)
        nm1 == IpSetName(nm, entry, Target(idxArg, dest), busy)
    IN  [names |-> nm1, adminUp |-> IpSetUp(nm1, up1, TempName(idxArg))]

\* get_interface_dict(): name -> (hwaddr, connection, name) for every
\* non-loopback link.  LOWER_UP is modelled by the administrative state
\* (carrier present).
get_interface_dict(nm, up) ==
    {[key |-> nm[k], val |-> <<upper(Macs[k]), up[k], nm[k]>>] :
        k \in DOMAIN nm}

\* glob('/etc/sysconfig/network-scripts/ifcfg-eth*')
Glob(dir) ==
    {f \in dir : /\ Len(f.path) >= Len(GlobPrefix)
                 /\ SubSeq(f.path, 1, Len(GlobPrefix)) = GlobPrefix}

\* get_config_files without the test of line 170.
OpenedWithVlan(dir) == Glob(dir)

\* The files get_config_files opens: not those with ':' in the path.
Opened(dir) == {f \in Glob(dir) : ~Contains(<<":">>, f.path)}

\* open(entry, 'r') raises IOError (uncaught) on a file it cannot open.
ConfigReadFailure(dir) == \E f \in Opened(dir) : ~f.readable

\* get_config_files(): path -> content
get_config_files(dir) ==
    {[key |-> f.path, val |-> f.content] : f \in Opened(dir)}

DictSet(d, k, v) == [x \in DOMAIN d \cup {k} |-> IF x = k THEN v ELSE d[x]]

RECURSIVE ParseLines(_, _)
ParseLines(lines, d) ==
    IF lines = <<>> THEN d
    ELSE LET split_line == split(Head(lines), "=")
         IN  ParseLines(Tail(lines),
                 IF Len(split_line) > 1
                 THEN DictSet(d, strip(upper(split_line[1]), Whitespace),
                                 strip(upper(split_line[2]), Whitespace))
                 ELSE d)

\* parse_config(string_input)
parse_config(string_input) == ParseLines(split(string_input, "\n"), <<>>)

\* get_config(): path -> parsed record
get_config(dir) ==
    {[key |-> e.key, val |-> parse_config(e.val)] :
        e \in get_config_files(dir)}


(***************************************************************************)
(* State.                                                                  *)
(***************************************************************************)
VARIABLES
    names,       \* kernel: link -> current name
    adminUp,     \* kernel: link -> administratively up
    host,        \* which naming of AllHosts the links held at boot
    dir,         \* which directory of AllDirs is on disk
    order,       \* the keys() order of every set of keys iterated so far
    interfaces,  \* main's `interfaces`, in keys() order
    configs,     \* main's `configs`, in keys() order
    pc,          \* where main is
    exc,         \* the uncaught exception that ended main, or "None"
    i,           \* position in the loop over interfaces.keys()
    j,           \* position in assign_interface's loop over configs.keys()
    idx,         \* phase 3's idx
    named,       \* assign_interface's `named`
    success,     \* main's `success`; Unbound until first assigned
    unnamed,     \* main's `unnamed`
    faultsLeft,  \* renames the kernel may still refuse as busy
    faults,      \* the phases of this run in which the kernel refused a rename as busy
    last,        \* the last link_name_change call and what became of it
    failed2,     \* links with a phase-2 rename command that renamed nothing
    run,         \* number of the current run of main
    start,       \* the link -> name table the current run started from
    results      \* the start and final name tables of every completed run

vars == <<names, adminUp, host, dir, order, interfaces, configs, pc, exc, i, j, idx,
          named, success, unnamed, faultsLeft, faults, last, failed2, run,
          start, results>>

kernel == <<names, adminUp>>
inputs == <<host, dir>>
runs == <<run, start, results>>

Unbound == -1
NoCmd == [phase |-> 0, link |-> 0, entry |-> <<>>, target |-> <<>>,
          clash |-> FALSE, ok |-> FALSE, lowest |-> 0]

Links == DOMAIN names

\* The keys of a dict given as its set of entries.
KeySet(d) == {e.key : e \in d}

\* The orders keys() may return for the dict d.
KeyOrders(d) ==
    IF KeySet(d) \in DOMAIN order THEN {order[KeySet(d)]}
    ELSE Orderings(KeySet(d))

\* The entries of the dict d as iterating d.keys() in the order ord meets
\* them.
Iterate(d, ord) ==
    [p \in 1..Len(ord) |-> CHOOSE e \in d : e.key = ord[p]]

Remember(d, ord) ==
    order' = [x \in DOMAIN order \cup {KeySet(d)} |->
                 IF x = KeySet(d) THEN ord ELSE order[x]]

\* interfaces = get_interface_dict(), as main's loops will iterate it.
EnumerateInterfaces ==
    LET d == get_interface_dict(names, adminUp)
    IN  \E ord \in KeyOrders(d) :
            /\ interfaces' = Iterate(d, ord)
            /\ Remember(d, ord)

\* The link whose address get_interface_dict reported as hwaddr.
LinkOfMac(hwaddr) == CHOOSE k \in 1..Len(Macs) : upper(Macs[k]) = hwaddr

\* main, lines 239-242: the first idx at or after n with 'eth%d' not a key.
RECURSIVE FirstFree(_, _)
FirstFree(n, keys) ==
    IF EthName(n) \in keys THEN FirstFree(n + 1, keys) ELSE n

\* The choices the kernel has on a rename that nothing else prevents.
BusyChoices(entry, target) ==
    IF faultsLeft > 0 /\ entry # target /\ RenameOk(names, entry, target, FALSE)
    THEN BOOLEAN ELSE {FALSE}

\* What one call of link_name_change does to the state and its record.
Call(phase, idxArg, entry, dest, busy) ==
    LET r == link_name_change(names, adminUp, idxArg, entry, dest, busy)
        target == Target(idxArg, dest)
        held == Holders(names, entry)
    IN  /\ names' = r.names
        /\ adminUp' = r.adminUp
        /\ faultsLeft' = IF busy THEN faultsLeft - 1 ELSE faultsLeft
        /\ faults' = IF busy THEN faults \cup {phase} ELSE faults
        /\ last' = [phase |-> phase,
                    link |-> IF held = {} THEN 0 ELSE CHOOSE k \in held : TRUE,
                    entry |-> entry,
                    target |-> target,
                    clash |-> \E k \in Links : names[k] = target /\ k \notin held,
                    ok |-> RenameOk(names, entry, target, busy),
                    lowest |-> FirstFree(0, {names[k] : k \in Links})]

Abort(e) ==
    /\ pc' = "aborted"
    /\ exc' = e

InitProgram ==
    /\ interfaces = <<>>
    /\ configs = <<>>
    /\ pc = "start"
    /\ exc = "None"
    /\ i = 1
    /\ j = 1
    /\ idx = 0
    /\ named = 0
    /\ success = Unbound
    /\ unnamed = 0
    /\ faults = {}
    /\ last = NoCmd
    /\ failed2 = {}

InitKernel ==
    /\ host \in Hosts
    /\ dir \in Dirs
    /\ names = AllHosts[host]
    /\ adminUp \in {[k \in DOMAIN AllHosts[host] |-> b] : b \in BOOLEAN}
    /\ order = <<>>
    /\ run = 1
    /\ start = names
    /\ results = <<>>

Init ==
    /\ InitKernel
    /\ InitProgram
    /\ faultsLeft = MaxFaults

\* main, line 216: the first enumeration.
Enumerate1 ==
    /\ pc = "start"
    /\ EnumerateInterfaces
    /\ i' = 1
    /\ pc' = "phase1"
    /\ UNCHANGED <<kernel, inputs, runs, configs, exc, j, idx, named, success,
                   unnamed, faultsLeft, faults, last, failed2>>

\* main, lines 217-218: link_name_change(idx, entry) for the next key.
Quarantine ==
    /\ pc = "phase1"
    /\ i <= Len(interfaces)
    /\ \E busy \in BusyChoices(interfaces[i].key, TempName(i - 1)) :
           Call(1, i - 1, interfaces[i].key, <<>>, busy)
    /\ i' = i + 1
    /\ UNCHANGED <<inputs, order, runs, interfaces, configs, pc, exc, j, idx,
                   named, success, unnamed, failed2>>

\* main, line 221: the enumeration after phase 1.
Enumerate2 ==
    /\ pc = "phase1"
    /\ i > Len(interfaces)
    /\ EnumerateInterfaces
    /\ pc' = "load"
    /\ UNCHANGED <<kernel, inputs, runs, configs, exc, i, j, idx, named,
                   success, unnamed, faultsLeft, faults, last, failed2>>

\* main, line 224: configs = get_config().
LoadConfig ==
    /\ pc = "load"
    /\ IF ConfigReadFailure(AllDirs[dir])
       THEN /\ Abort("IOError")
            /\ UNCHANGED <<configs, order, i, j, named>>
       ELSE /\ LET d == get_config(AllDirs[dir])
               IN  \E ord \in KeyOrders(d) :
                       /\ configs' = Iterate(d, ord)
                       /\ Remember(d, ord)
            /\ pc' = "phase2"
            /\ exc' = exc
            /\ i' = 1
            /\ j' = 1
            /\ named' = 0
    /\ UNCHANGED <<kernel, inputs, runs, interfaces, idx, success, unnamed,
                   faultsLeft, faults, last, failed2>>

\* The name assign_interface asks for from the value of DEVICE or NAME.
DesiredName(value) == strip(lower(value), {DQuote})

\* The name assign_interface would pass were it read from the kernel anew.
EntryNameCurrent(interface) == names[LinkOfMac(interface[1])]

\* The name assign_interface passes to link_name_change: interface[2], the
\* name read by the enumeration of line 221.
EntryName(interface) == interface[3]

\* assign_interface, line 203: the record's HWADDR is found in the address.
Matches(rec, interface) ==
    Contains(strip(rec[K_HWADDR], {DQuote}), interface[1])

\* assign_interface, lines 202-209: one record of configs for interfaces[i].
Assign ==
    /\ pc = "phase2"
    /\ i <= Len(interfaces)
    /\ j <= Len(configs)
    /\ LET interface == interfaces[i].val
           rec == configs[j].val
           key == IF K_DEVICE \in DOMAIN rec THEN K_DEVICE ELSE K_NAME
       IN  IF K_HWADDR \notin DOMAIN rec
           THEN /\ Abort("KeyError")
                /\ UNCHANGED <<kernel, j, named, faultsLeft, faults, last,
                               failed2>>
           ELSE IF Matches(rec, interface) /\ key \in DOMAIN rec
           THEN /\ \E busy \in BusyChoices(EntryName(interface), DesiredName(rec[key])) :
                      /\ Call(2, 0, EntryName(interface), DesiredName(rec[key]), busy)
                      /\ failed2' =
                            IF RenameOk(names, EntryName(interface),
                                        Target(0, DesiredName(rec[key])), busy)
                            THEN failed2
                            ELSE failed2 \cup {LinkOfMac(interface[1])}
                /\ named' = named + 1
                /\ j' = j + 1
                /\ UNCHANGED <<pc, exc>>
           ELSE /\ j' = j + 1
                /\ UNCHANGED <<kernel, pc, exc, named, faultsLeft, faults,
                               last, failed2>>
    /\ UNCHANGED <<inputs, order, runs, interfaces, configs, i, idx, success,
                   unnamed>>

\* assign_interface, line 211, and main, line 228: success = named.
AssignReturn ==
    /\ pc = "phase2"
    /\ i <= Len(interfaces)
    /\ j > Len(configs)
    /\ success' = named
    /\ i' = i + 1
    /\ j' = 1
    /\ named' = 0
    /\ UNCHANGED <<kernel, inputs, order, runs, interfaces, configs, pc, exc,
                   idx, unnamed, faultsLeft, faults, last, failed2>>

\* main, lines 230-236: unnamed, the enumeration after phase 2, `if unnamed`.
Summary ==
    /\ pc = "phase2"
    /\ i > Len(interfaces)
    /\ IF success = Unbound
       THEN /\ Abort("NameError")
            /\ UNCHANGED <<interfaces, order, unnamed, idx, i>>
       ELSE /\ unnamed' = Len(interfaces) - success
            /\ EnumerateInterfaces
            /\ pc' = IF unnamed' # 0 THEN "phase3" ELSE "final"
            /\ exc' = exc
            /\ idx' = 0
            /\ i' = 1
    /\ UNCHANGED <<kernel, inputs, runs, configs, j, named, success,
                   faultsLeft, faults, last, failed2>>

\* d.keys() of a dict held in iteration order
Keys(d) == {d[k].key : k \in 1..Len(d)}

\* main, lines 237-245: one key of the loop of phase 3.
Fallback ==
    /\ pc = "phase3"
    /\ i <= Len(interfaces)
    /\ IF ~Contains(S_eth, interfaces[i].val[3])
       THEN LET n == FirstFree(idx, Keys(interfaces))
            IN  /\ \E busy \in BusyChoices(interfaces[i].key, EthName(n)) :
                       Call(3, 0, interfaces[i].key, EthName(n), busy)
                /\ idx' = n + 1
       ELSE UNCHANGED <<kernel, idx, faultsLeft, faults, last>>
    /\ i' = i + 1
    /\ UNCHANGED <<inputs, order, runs, interfaces, configs, pc, exc, j, named,
                   success, unnamed, failed2>>

Phase3Over == IF pc = "phase3" THEN i > Len(interfaces) ELSE pc = "final"

\* main, line 248: the final enumeration; main returns.
Final ==
    /\ Phase3Over
    /\ pc' = "done"
    /\ results' = Append(results, [start |-> start, final |-> names])
    /\ UNCHANGED <<kernel, inputs, order, run, start, interfaces, configs, exc, i, j, idx,
                   named, success, unnamed, faultsLeft, faults, last, failed2>>

\* A new process: main's variables as they are before its first line.
StartProgram ==
    /\ interfaces' = <<>>
    /\ configs' = <<>>
    /\ pc' = "start"
    /\ exc' = "None"
    /\ i' = 1
    /\ j' = 1
    /\ idx' = 0
    /\ named' = 0
    /\ success' = Unbound
    /\ unnamed' = 0
    /\ faults' = {}
    /\ last' = NoCmd
    /\ failed2' = {}

\* The unit runs main again on the names the last run left (lines 251-262).
Rerun ==
    /\ pc = "done"
    /\ run < MaxRuns
    /\ StartProgram
    /\ run' = run + 1
    /\ start' = names
    /\ UNCHANGED <<kernel, inputs, order, results, faultsLeft>>

\* The host boots again, the kernel names the links anew, the unit runs main.
Reboot ==
    /\ pc = "done"
    /\ run < MaxRuns
    /\ StartProgram
    /\ run' = run + 1
    /\ host' \in {h \in Hosts : Len(AllHosts[h]) = Len(names)}
    /\ names' = AllHosts[host']
    /\ adminUp' = [k \in Links |-> FALSE]
    /\ start' = names'
    /\ UNCHANGED <<dir, order, results, faultsLeft>>

Next ==
    \/ Enumerate1
    \/ Quarantine
    \/ Enumerate2
    \/ LoadConfig
    \/ Assign
    \/ AssignReturn
    \/ Summary
    \/ Fallback
    \/ Final

Spec == Init /\ [][Next]_vars

\* Several runs of main on one host and one directory, the kernel never busy.
InitRuns ==
    /\ InitKernel
    /\ InitProgram
    /\ faultsLeft = 0

NextRuns ==
    \/ Next
    \/ Rerun
    \/ Reboot

SpecRuns == InitRuns /\ [][NextRuns]_vars


(***************************************************************************)
(* Vocabulary of the properties.                                           *)
(***************************************************************************)
Quotes == {DQuote, SQuote}

AllDigits(s) ==
    /\ s # <<>>
    /\ \A k \in 1..Len(s) : \E d \in 1..10 : Digits[d] = s[k]

\* s is prefix followed by a decimal number
Numbered(prefix, s) ==
    /\ Len(s) > Len(prefix)
    /\ SubSeq(s, 1, Len(prefix)) = prefix
    /\ AllDigits(SubSeq(s, Len(prefix) + 1, Len(s)))

IsEthN(s) == Numbered(S_eth, s)
IsTemp(s) == Numbered(S_temp, s)

\* The records main loaded.
Recs == {configs[k].val : k \in 1..Len(configs)}

\* The address link k reports, as get_interface_dict stores it.
HwAddr(k) == upper(Macs[k])

\* A record's address as the data model defines it: uppercase, the
\* surrounding quote characters removed.
RecordMac(r) == strip(r[K_HWADDR], Quotes)

HasTarget(r) == K_DEVICE \in DOMAIN r \/ K_NAME \in DOMAIN r

\* A record's desiredName: DEVICE if present, else NAME.
RecordTarget(r) ==
    DesiredName(r[IF K_DEVICE \in DOMAIN r THEN K_DEVICE ELSE K_NAME])

\* The records the code matches with link k.
MatchingRecs(k) ==
    {r \in Recs : K_HWADDR \in DOMAIN r /\ Matches(r, <<HwAddr(k)>>)}

\* No record names the address of link k, by either notion of a match.
Unmatched(k) ==
    \A r \in Recs :
        K_HWADDR \in DOMAIN r =>
            /\ ~Matches(r, <<HwAddr(k)>>)
            /\ ~Contains(RecordMac(r), HwAddr(k))

Phase1Done ==
    /\ pc # "start"
    /\ ~(pc = "phase1" /\ i <= Len(interfaces))

Distinct(nm) == \A a, b \in DOMAIN nm : a # b => nm[a] # nm[b]

C2_MatchingCorrectness ==
    (pc = "done" /\ faults = {}) =>
        \A k \in Links : \A r \in Recs :
            (/\ K_HWADDR \in DOMAIN r
             /\ K_DEVICE \in DOMAIN r
             /\ RecordMac(r) = HwAddr(k)
             /\ MatchingRecs(k) = {r}
             /\ \A q \in Recs \ {r} :
                    HasTarget(q) => RecordTarget(q) # RecordTarget(r))
            => names[k] = DesiredName(r[K_DEVICE])

(***************************************************************************)
(* C3.  When the run ends every interface is CONFIG_MATCHED or             *)
(* FALLBACK_ASSIGNED: it holds the desiredName of a record matching its    *)
(* MAC or an eth<N> name, and none is left on a temp<index> placeholder,   *)
(* for any catalog.  Stated for runs in which the kernel was never busy.   *)
(***************************************************************************)
C3_AllNamedAtEnd ==
    (pc = "done" /\ faults = {}) =>
        \A k \in Links :
            \/ IsEthN(names[k])
            \/ \E r \in MatchingRecs(k) :
                   HasTarget(r) /\ names[k] = RecordTarget(r)

(***************************************************************************)
(* C4.  Fallback correctness: every name phase 3 assigns is eth<N> with N  *)
(* the lowest number whose eth<N> no interface holds at that moment, and   *)
(* so the interfaces whose MAC is in no record end the run with (pairwise  *)
(* distinct) eth<N> names.  Stated for runs in which the kernel was never  *)
(* busy.                                                                   *)
(***************************************************************************)
C4_LowestFree ==
    (faults = {} /\ last.phase = 3 /\ last.ok) =>
        last.target = EthName(last.lowest)

C4_FallbackCorrectness ==
    /\ C4_LowestFree
    /\ (pc = "done" /\ faults = {}) =>
           /\ \A k \in Links : Unmatched(k) => IsEthN(names[k])
           /\ Distinct(names)

(***************************************************************************)
(* C5.  Partial-failure containment: when the rename command of an         *)
(* interface fails in phase 2, the run goes on and phase 3 gives that      *)
(* interface, still lacking "eth" in its name, a fallback eth<N> name.     *)
(* Stated for runs in which the kernel was busy in phase 2 at most.        *)
(***************************************************************************)
C5_FailureContained ==
    (pc = "done" /\ faults \subseteq {2}) =>
        \A k \in failed2 : Contains(S_eth, names[k])

(***************************************************************************)
(* C6.  Idempotence: a run of main that starts from the names the run      *)
(* before it left ends with the same name-to-MAC assignment, the           *)
(* directory being unchanged.                                              *)
(***************************************************************************)
C6_Idempotent ==
    \A a \in 1..(Len(results) - 1) :
        results[a + 1].start = results[a].final =>
            results[a + 1].final = results[a].final

(***************************************************************************)
(* C7.  Determinism: for fixed MACs and a fixed directory, runs that       *)
(* differ only in the enumeration order or in the names held before the    *)
(* run end with the same name-to-MAC assignment.                           *)
(***************************************************************************)
C7_Deterministic ==
    \A a, b \in 1..Len(results) : results[a].final = results[b].final

(***************************************************************************)
(* C8.  ConfigReadFailure is contained: with a file of the scan that       *)
(* cannot be read, main does not abort with the interfaces left on their   *)
(* temp names; it loads the other files and goes on through phases 2 and   *)
(* 3.  Stated for hosts that have an interface and runs in which the       *)
(* kernel was never busy.                                                  *)
(***************************************************************************)
C8_ReadFailureContained ==
    (/\ ConfigReadFailure(AllDirs[dir])
     /\ Links # {}
     /\ faults = {}
     /\ pc \notin {"start", "phase1", "load"}) =>
        /\ pc # "aborted"
        /\ Keys(configs) =
               {f.path : f \in {g \in Opened(AllDirs[dir]) : g.readable}}

(***************************************************************************)
(* C9.  A record without HWADDR is inert: it matches no interface, causes  *)
(* no rename and does not stop the run.  Stated for hosts that have an     *)
(* interface and runs in which the kernel was never busy.                  *)
(***************************************************************************)
C9_NoHwaddrInert ==
    (Links # {} /\ faults = {} /\ \E r \in Recs : K_HWADDR \notin DOMAIN r) =>
        pc # "aborted"

(***************************************************************************)
(* C10.  Case and quoting normalization: a record whose HWADDR is written  *)
(* in lowercase inside quote characters matches the interface that         *)
(* reports the same address in uppercase.                                  *)
(***************************************************************************)
C10_QuotedLowercaseMatches ==
    \A k \in Links : \A r \in Recs :
        (K_HWADDR \in DOMAIN r /\ RecordMac(r) = HwAddr(k)) =>
            Matches(r, <<HwAddr(k)>>)

(***************************************************************************)
(* C11.  VLAN exclusion: the catalog get_config returns never holds a      *)
(* record whose file name contains a colon, and every rename of phase 2    *)
(* asks for the desiredName of a record of a file without a colon.         *)
(***************************************************************************)
C11_VlanExcluded ==
    /\ \A k \in 1..Len(configs) : ~Contains(<<":">>, configs[k].key)
    /\ last.phase = 2 =>
           \E k \in 1..Len(configs) :
               /\ ~Contains(<<":">>, configs[k].key)
               /\ HasTarget(configs[k].val)
               /\ last.target = RecordTarget(configs[k].val)

\* The scan found a file with a colon and phase 2 has renamed a link.
C11_Witness ==
    /\ \E f \in Glob(AllDirs[dir]) : Contains(<<":">>, f.path)
    /\ configs # <<>>
    /\ last.phase = 2
    /\ last.ok

(***************************************************************************)
(* C12.  Phase ordering: when the first rename command of phase 2 or of    *)
(* phase 3 is issued, every interface holds a temp<index> name, whatever   *)
(* names the interfaces held before the run.  Stated for runs in which the *)
(* kernel was never busy.                                                  *)
(***************************************************************************)
C12_PhaseOrdering ==
    [][(faults = {} /\ last.phase \in {0, 1} /\ last'.phase \in {2, 3}) =>
           \A k \in Links : IsTemp(names[k])]_vars

\* The records of the catalog ask for pairwise distinct names.
DistinctTargets ==
    \A a, b \in 1..Len(configs) :
        (a # b /\ HasTarget(configs[a].val) /\ HasTarget(configs[b].val)) =>
            RecordTarget(configs[a].val) # RecordTarget(configs[b].val)

(***************************************************************************)
(* C13.  Collision-free renames: no rename command of phase 2 or phase 3   *)
(* asks for a name that another interface holds when the command is        *)
(* issued, for every initial naming and every catalog whose records ask    *)
(* for pairwise distinct names.  Stated for runs in which the kernel was   *)
(* never busy.                                                             *)
(***************************************************************************)
C13_CollisionFree ==
    (faults = {} /\ last.phase \in {2, 3} /\ DistinctTargets) => ~last.clash

(***************************************************************************)
(* C14.  Down, rename, up on the same interface: after link_name_change    *)
(* has renamed an interface, in any phase, that interface is               *)
(* administratively up.                                                    *)
(***************************************************************************)
C14_UpAfterRename ==
    (last.phase # 0 /\ last.ok) => adminUp[last.link]

\* assign_interface is at work on interfaces[i]; its loop has passed the
\* records before configs[j].
InAssign == pc = "phase2" /\ i <= Len(interfaces)

\* assign_interface has gone through every record for interfaces[i].
AtReturn == InAssign /\ j > Len(configs)

\* The link assign_interface is at work on.
AssignLink == LinkOfMac(interfaces[i].val[1])

\* The records that match interfaces[i] and ask for a name, by position.
Applied ==
    {p \in 1..Len(configs) :
        /\ K_HWADDR \in DOMAIN configs[p].val
        /\ Matches(configs[p].val, interfaces[i].val)
        /\ HasTarget(configs[p].val)}

\* Those of them that ask for a name the interface did not hold already and
\* no other link holds.
Accepted ==
    {p \in Applied :
        /\ RecordTarget(configs[p].val) # interfaces[i].val[3]
        /\ \A k \in Links \ {AssignLink} :
               names[k] # RecordTarget(configs[p].val)}

Min(S) == CHOOSE x \in S : \A y \in S : x <= y
Max(S) == CHOOSE x \in S : \A y \in S : x >= y

(***************************************************************************)
(* C15.  Several records matching one interface, as stated: after phase 2  *)
(* the interface holds the desiredName of the last matching record in      *)
(* iteration order.  Stated for runs in which the kernel was not busy in   *)
(* phase 2.                                                                *)
(***************************************************************************)
C15_LastMatchWins ==
    (AtReturn /\ 2 \notin faults /\ Cardinality(Applied) >= 2) =>
        names[AssignLink] = RecordTarget(configs[Max(Applied)].val)

(***************************************************************************)
(* C15, amended.  Every matching record is attempted in iteration order    *)
(* and counted, each attempt naming the interface as the enumeration       *)
(* before phase 2 read it.  Once one attempt has renamed the interface,    *)
(* no later record renames anything; with the kernel not busy in phase 2   *)
(* the interface ends with the desiredName of the first matching record    *)
(* whose name it did not hold and no other interface held.                 *)
(***************************************************************************)
C15_FirstRenameWins ==
    /\ [](AtReturn =>
             /\ named = Cardinality(Applied)
             /\ 2 \notin faults =>
                    names[AssignLink] =
                        IF Accepted = {} THEN interfaces[i].val[3]
                        ELSE RecordTarget(configs[Min(Accepted)].val))
    /\ [][(InAssign /\ names[AssignLink] # interfaces[i].val[3]) =>
              names' = names]_vars

\* Two records have been applied to one interface and it has been renamed.
C15_Witness ==
    /\ AtReturn
    /\ Cardinality(Applied) >= 2
    /\ Cardinality(Accepted) >= 2
    /\ names[AssignLink] # interfaces[i].val[3]

\* The number assign_interface returns for link k: the records that match
\* it and ask for a name.
MatchedOf(k) ==
    Cardinality({p \in 1..Len(configs) :
        /\ K_HWADDR \in DOMAIN configs[p].val
        /\ Matches(configs[p].val, <<HwAddr(k)>>)
        /\ HasTarget(configs[p].val)})

RECURSIVE SumMatched(_)
SumMatched(S) ==
    IF S = {} THEN 0
    ELSE LET k == CHOOSE x \in S : TRUE
         IN  MatchedOf(k) + SumMatched(S \ {k})

(***************************************************************************)
(* C16.  After phase 2 unnamed is the number of enumerated interfaces      *)
(* minus the matched count accumulated over all interfaces of phase 2,     *)
(* and phase 3 runs if and only if unnamed > 0.                            *)
(***************************************************************************)
C16_UnnamedCount ==
    pc \in {"phase3", "final"} =>
        /\ unnamed = Cardinality(Links) - SumMatched(Links)
        /\ pc = "phase3" <=> unnamed > 0

(***************************************************************************)
(* C17.  Phase 3 renames only interfaces phase 2 gave no name: the name an *)
(* interface holds when phase 3 renames it is not the desiredName of a     *)
(* record matching it, whatever the desiredName (with or without "eth").   *)
(* Stated for runs in which the kernel was never busy.                     *)
(***************************************************************************)
C17_Phase3SkipsMatched ==
    (faults = {} /\ last.phase = 3 /\ last.ok) =>
        ~\E r \in MatchingRecs(last.link) :
            HasTarget(r) /\ RecordTarget(r) = last.entry

\* A record's desiredName as the data model defines it: DEVICE if present,
\* else NAME, lowercased, the surrounding quote characters removed.
SpecTarget(r) ==
    strip(lower(r[IF K_DEVICE \in DOMAIN r THEN K_DEVICE ELSE K_NAME]), Quotes)

(***************************************************************************)
(* C18.  Target selection in assign_interface: for a record that matches   *)
(* the interface the rename command asks for the record's DEVICE value if  *)
(* DEVICE is present, else for its NAME value, lowercased and with the     *)
(* quotes stripped, and the count grows by one; a matching record with     *)
(* neither, like a record that does not match, issues no command and       *)
(* leaves the count as it is.                                              *)
(***************************************************************************)
C18_TargetSelection ==
    [][(InAssign /\ j <= Len(configs) /\ pc' = "phase2") =>
           LET r == configs[j].val
           IN  IF /\ K_HWADDR \in DOMAIN r
                  /\ Matches(r, interfaces[i].val)
                  /\ HasTarget(r)
               THEN /\ last'.phase = 2
                    /\ last'.entry = interfaces[i].val[3]
                    /\ last'.target = SpecTarget(r)
                    /\ named' = named + 1
               ELSE /\ last' = last
                    /\ kernel' = kernel
                    /\ named' = named]_vars

(***************************************************************************)
(* C19.  Frame of a rename: a call of link_name_change for an interface,   *)
(* in any phase, changes neither the name nor the administrative state of  *)
(* any other interface.                                                    *)
(***************************************************************************)
C19_RenameFrame ==
    [][\A k \in Links :
           k # last'.link =>
               names'[k] = names[k] /\ adminUp'[k] = adminUp[k]]_vars

(***************************************************************************)
(* C20.  With no non-loopback interface main issues no rename command and  *)
(* goes on to the final enumeration without an error.  Stated for          *)
(* directories whose files can all be read.                                *)
(***************************************************************************)
C20_EmptyHostCompletes ==
    (Links = {} /\ ~ConfigReadFailure(AllDirs[dir])) =>
        (last.phase = 0 /\ pc # "aborted")

=============================================================================
